---- MODULE Spec2Model ----
(***************************************************************************)
(* The persistent symbol index of src/ast/alt_db.rs: a sled key-value      *)
(* store holding d/ (definition), c/ (suffix) and u/ (usage) keys, kept by *)
(* doc_add / doc_remove and read by definitions / usages / doc_symbols.    *)
(*                                                                         *)
(* Strings are sequences of one-character strings, so that sled's byte     *)
(* prefix scan, format!, join, split and trim are computed on characters.  *)
(* The character "^" stands for U+26A1 (the sign in the separator).  *)
(***************************************************************************)
EXTENDS Naturals, Sequences, FiniteSets, TLC

VARIABLES
    db,      \* the sled store: key |-> value
    mutex,   \* the AMutex<AltIndex>: "free" or the task that holds its guard
    tasks,   \* per task: where its current call stands, and the call's locals
    serial,  \* history: the store that the calls give when run one after another
             \* in the order in which they acquired the mutex
    calls,   \* history: the number of calls issued by the tasks
    state_mutex  \* the AMutex<AltState>: "free" or the task that holds its guard

vars == <<db, mutex, tasks, serial, calls, state_mutex>>

-----------------------------------------------------------------------------
(* Strings *)

COLONS == <<":", ":">>

SEP == <<" ", "^", " ">>

HUU == <<"h", "u", "u">>

Sentinel == <<"?">>

Digits == <<"0", "1", "2", "3", "4", "5", "6", "7", "8", "9">>

IsDigit(c) == \E n \in 1..Len(Digits) : Digits[n] = c

DigitVal(c) == (CHOOSE n \in 1..Len(Digits) : Digits[n] = c) - 1

Min(S) == CHOOSE x \in S : \A y \in S : x <= y

StartsWith(s, prefix) ==
    /\ Len(prefix) <= Len(s)
    /\ SubSeq(s, 1, Len(prefix)) = prefix

\* str::find: the start of every occurrence of pat in s
Occurrences(s, pat) ==
    {i \in 1..Len(s) : i + Len(pat) - 1 <= Len(s) /\ SubSeq(s, i, i + Len(pat) - 1) = pat}

Contains(s, pat) == Occurrences(s, pat) # {}

\* str::split(pat).collect(): the pieces between non-overlapping occurrences, left to right
RECURSIVE Split(_, _)
Split(s, pat) ==
    IF ~Contains(s, pat) THEN <<s>>
    ELSE LET i == Min(Occurrences(s, pat))
         IN  <<SubSeq(s, 1, i - 1)>> \o Split(SubSeq(s, i + Len(pat), Len(s)), pat)

\* str::matches("::").count()
CountMatches(s, pat) == Len(Split(s, pat)) - 1

\* str::trim(): leading and trailing white space removed
RECURSIVE Trim(_)
Trim(s) ==
    IF s = <<>> THEN s
    ELSE IF s[1] = " " THEN Trim(Tail(s))
    ELSE IF s[Len(s)] = " " THEN Trim(SubSeq(s, 1, Len(s) - 1))
    ELSE s

\* [String]::join("::")
RECURSIVE Join(_)
Join(parts) ==
    IF parts = <<>> THEN <<>>
    ELSE IF Len(parts) = 1 THEN parts[1]
    ELSE parts[1] \o COLONS \o Join(Tail(parts))

\* The order of bytes among the characters the model uses (U+26A1 encodes above ASCII)
ByteOrder ==
    <<" ", "/", "0", "1", "2", "3", "4", "5", "6", "7", "8", "9", ":", "?", "_",
      "a", "b", "c", "d", "h", "u", "x", "y", "^">>

Rank(c) == CHOOSE n \in 1..Len(ByteOrder) : ByteOrder[n] = c

\* IVec's Ord: lexicographic on bytes
RECURSIVE KeyLess(_, _)
KeyLess(s, t) ==
    IF t = <<>> THEN FALSE
    ELSE IF s = <<>> THEN TRUE
    ELSE IF s[1] = t[1] THEN KeyLess(Tail(s), Tail(t))
    ELSE Rank(s[1]) < Rank(t[1])

-----------------------------------------------------------------------------
(* Symbol model: AltDefinition, Usage and their serialization *)

Usage(target) == [target_for_guesswork |-> target]

AltDefinition(path, usages_) == [official_path |-> path, usages |-> usages_]

\* AltDefinition::path
path(definition) == Join(definition.official_path)

\* A length-prefixed encoding, as CBOR's: a text string is its length and its bytes,
\* an array is its length and its items.
EncStr(s) == <<Digits[Len(s) + 1]>> \o s

RECURSIVE EncItems(_)
EncItems(strs) ==
    IF strs = <<>> THEN <<>> ELSE EncStr(Head(strs)) \o EncItems(Tail(strs))

EncVec(strs) == <<Digits[Len(strs) + 1]>> \o EncItems(strs)

RECURSIVE EncUsages(_)
EncUsages(us) ==
    IF us = <<>> THEN <<>>
    ELSE EncVec(Head(us).target_for_guesswork) \o EncUsages(Tail(us))

\* serde_cbor::to_vec(&definition)
Serialize(definition) ==
    EncVec(definition.official_path)
        \o <<Digits[Len(definition.usages) + 1]>> \o EncUsages(definition.usages)

DecFail == [ok |-> FALSE, val |-> <<>>, rest |-> <<>>]

DecStr(b) ==
    IF b = <<>> \/ ~IsDigit(b[1]) THEN DecFail
    ELSE LET n == DigitVal(b[1])
         IN  IF Len(b) < n + 1 THEN DecFail
             ELSE [ok |-> TRUE, val |-> SubSeq(b, 2, n + 1), rest |-> SubSeq(b, n + 2, Len(b))]

RECURSIVE DecItems(_, _)
DecItems(n, b) ==
    IF n = 0 THEN [ok |-> TRUE, val |-> <<>>, rest |-> b]
    ELSE LET first == DecStr(b)
         IN  IF ~first.ok THEN DecFail
             ELSE LET others == DecItems(n - 1, first.rest)
                  IN  IF ~others.ok THEN DecFail
                      ELSE [ok |-> TRUE, val |-> <<first.val>> \o others.val, rest |-> others.rest]

DecVec(b) ==
    IF b = <<>> \/ ~IsDigit(b[1]) THEN DecFail ELSE DecItems(DigitVal(b[1]), Tail(b))

RECURSIVE DecUsages(_, _)
DecUsages(n, b) ==
    IF n = 0 THEN [ok |-> TRUE, val |-> <<>>, rest |-> b]
    ELSE LET first == DecVec(b)
         IN  IF ~first.ok THEN DecFail
             ELSE LET others == DecUsages(n - 1, first.rest)
                  IN  IF ~others.ok THEN DecFail
                      ELSE [ok |-> TRUE, val |-> <<Usage(first.val)>> \o others.val,
                            rest |-> others.rest]

\* serde_cbor::from_slice::<AltDefinition>(&value): Ok(definition) or Err
Deserialize(value) ==
    LET p == DecVec(value)
    IN  IF ~p.ok \/ p.rest = <<>> \/ ~IsDigit(p.rest[1]) THEN [ok |-> FALSE, val |-> <<>>]
        ELSE LET u == DecUsages(DigitVal(p.rest[1]), Tail(p.rest))
             IN  IF ~u.ok \/ u.rest # <<>> THEN [ok |-> FALSE, val |-> <<>>]
                 ELSE [ok |-> TRUE, val |-> AltDefinition(p.val, u.val)]

-----------------------------------------------------------------------------
(* The embedded store: sled::Db as a map from keys to values, sled::Batch *)

EmptyStore == [k \in {} |-> <<>>]

EmptyBatch == [writes |-> [k \in {} |-> <<>>], removes |-> {}]

\* sled::Batch::insert
BatchInsert(batch, key, value) ==
    [writes  |-> [k \in DOMAIN batch.writes \cup {key} |->
                    IF k = key THEN value ELSE batch.writes[k]],
     removes |-> batch.removes \ {key}]

\* sled::Batch::remove
BatchRemove(batch, key) ==
    [writes  |-> [k \in DOMAIN batch.writes \ {key} |-> batch.writes[k]],
     removes |-> batch.removes \cup {key}]

\* Mutant of ApplyBatch: a torn batch, of which only the d/ keys are written and removed
ApplyBatch_Torn(store, batch) ==
    LET writes == {k \in DOMAIN batch.writes : k[1] = "d"}
        removes == {k \in batch.removes : k[1] = "d"}
    IN  [k \in (DOMAIN store \cup writes) \ removes |->
            IF k \in writes THEN batch.writes[k] ELSE store[k]]

\* Mutant of ApplyBatch: a key that is stored already keeps its value
ApplyBatch_KeepsExisting(store, batch) ==
    [k \in (DOMAIN store \cup DOMAIN batch.writes) \ batch.removes |->
        IF k \in DOMAIN store THEN store[k] ELSE batch.writes[k]]

\* Mutant of ApplyBatch: a value written to a key that is stored is appended to it
ApplyBatch_Appends(store, batch) ==
    [k \in (DOMAIN store \cup DOMAIN batch.writes) \ batch.removes |->
        IF k \in DOMAIN batch.writes
        THEN (IF k \in DOMAIN store THEN store[k] ELSE <<>>) \o batch.writes[k]
        ELSE store[k]]

\* sled::Db::apply_batch: every write and removal of the batch at once
ApplyBatch(store, batch) ==
    [k \in (DOMAIN store \cup DOMAIN batch.writes) \ batch.removes |->
        IF k \in DOMAIN batch.writes THEN batch.writes[k] ELSE store[k]]

\* Mutant of ApplyFailed: the batch failed after its d/ keys had been written
ApplyFailed_PartWritten(store, batch) ==
    [k \in DOMAIN store \cup {j \in DOMAIN batch.writes : j[1] = "d"} |->
        IF k \in DOMAIN batch.writes /\ k[1] = "d" THEN batch.writes[k] ELSE store[k]]

\* sled::Db::apply_batch returning Err(e): the batch is atomic, none of it is applied
ApplyFailed(store, batch) == store

\* Mutant of Clear: the store is opened and left as it was found
Clear_KeepsContent(store) == store

\* sled::Db::clear
Clear(store) == EmptyStore

\* sled::Db::get
Get(store, key) ==
    IF key \in DOMAIN store THEN [some |-> TRUE, val |-> store[key]]
    ELSE [some |-> FALSE, val |-> <<>>]

RECURSIVE SortKeys(_)
SortKeys(keys) ==
    IF keys = {} THEN <<>>
    ELSE LET m == CHOOSE k \in keys : \A j \in keys \ {k} : KeyLess(k, j)
         IN  <<m>> \o SortKeys(keys \ {m})

\* sled::Db::scan_prefix: the keys that start with the bytes of prefix, in key order
ScanPrefix(store, prefix) == SortKeys({k \in DOMAIN store : StartsWith(k, prefix)})

-----------------------------------------------------------------------------
(* Key schema *)

\* format!("d/{}", official_path)
DKey(official_path) == <<"d", "/">> \o official_path

\* format!("c/{} ^ {}", short, official_path), format!("u/{} ^ {}", short, official_path)
IndexKey(family, short, official_path) == <<family, "/">> \o short \o SEP \o official_path

\* Mutant of StripSentinel: the leading "?" is kept
StripSentinel_Keeps(usage_parts) == usage_parts

\* if let Some(first) = usage_parts.first() { if *first == "?" { usage_parts.remove(0); } }
StripSentinel(usage_parts) ==
    IF usage_parts # <<>> /\ Head(usage_parts) = Sentinel THEN Tail(usage_parts)
    ELSE usage_parts

-----------------------------------------------------------------------------
(* Path canonicalizer and parser: the inputs of the index *)

\* The files of the model: "a.h" and "ab.h" (the second name extends the first)
CPaths == {<<"a", ".", "h">>, <<"a", "b", ".", "h">>}

IdentChars == {"a", "b", "c", "d", "h", "u", "x", "y", "_",
               "0", "1", "2", "3", "4", "5", "6", "7", "8", "9"}

\* Strip a single trailing file extension
StripExtension(s) ==
    LET dots == {i \in 1..Len(s) : s[i] = "." /\ \A j \in i..Len(s) : s[j] # "/"}
    IN  IF dots = {} THEN s
        ELSE SubSeq(s, 1, (CHOOSE i \in dots : \A j \in dots : j <= i) - 1)

\* Replace any character that is not alphanumeric or underscore with underscore
Identifier(s) == [i \in 1..Len(s) |-> IF s[i] \in IdentChars THEN s[i] ELSE "_"]

\* Split on "/", drop empty segments
Segments(s) == SelectSeq(Split(s, <<"/">>), LAMBDA seg : seg # <<>>)

filesystem_path_to_double_colon_path(cpath) ==
    LET segs == Segments(StripExtension([i \in 1..Len(cpath) |->
                    IF cpath[i] = "\\" THEN "/" ELSE cpath[i]]))
    IN  [i \in 1..Len(segs) |-> Identifier(segs[i])]

\* The naming scopes a text may define: x and y::x
ScopePaths == << <<(<<"x">>)>>, <<(<<"y">>), (<<"x">>)>> >>

\* The usage lists a definition's body may hold:
\*   none; ?::x and a lone ?; y::x, x and an empty target
UsageLists ==
    << <<>>,
       <<Usage(<<Sentinel, <<"x">> >>), Usage(<<Sentinel>>)>>,
       <<Usage(<< <<"y">>, <<"x">> >>), Usage(<< <<"x">> >>), Usage(<<>>)>> >>

\* A text is what it declares: for each scope, 0 (not declared) or the usage list of its body
Texts == [1..Len(ScopePaths) -> 0..Len(UsageLists)]

\* The parser's contract: definitions whose official_path begins with the file's prefix
parse_anything_and_add_file_path(cpath, text) ==
    {AltDefinition(filesystem_path_to_double_colon_path(cpath) \o ScopePaths[i],
                   UsageLists[text[i]]) : i \in {j \in DOMAIN text : text[j] # 0}}

-----------------------------------------------------------------------------
(* doc_add and doc_remove *)

\* Mutant of InsertSuffixKeys: the key of the whole sequence is left out
RECURSIVE InsertSuffixKeys_ProperSuffixes(_, _, _, _)
InsertSuffixKeys_ProperSuffixes(batch, family, parts, official_path) ==
    IF Len(parts) <= 1 THEN batch
    ELSE InsertSuffixKeys_ProperSuffixes(
            BatchInsert(batch, IndexKey(family, Join(Tail(parts)), official_path), HUU),
            family, Tail(parts), official_path)

\* while !path_parts.is_empty() { batch.insert(c_key, b"huu"); path_parts.remove(0); }
RECURSIVE InsertSuffixKeys(_, _, _, _)
InsertSuffixKeys(batch, family, parts, official_path) ==
    IF parts = <<>> THEN batch
    ELSE InsertSuffixKeys(BatchInsert(batch, IndexKey(family, Join(parts), official_path), HUU),
                          family, Tail(parts), official_path)

\* Mutant of InsertUsageKeys: a usage whose target starts with "?" is not indexed at all
RECURSIVE InsertUsageKeys_SkipsUnresolved(_, _, _)
InsertUsageKeys_SkipsUnresolved(batch, usages_, official_path) ==
    IF usages_ = <<>> THEN batch
    ELSE LET usage_parts == Head(usages_).target_for_guesswork
         IN  InsertUsageKeys_SkipsUnresolved(
                IF usage_parts # <<>> /\ Head(usage_parts) = Sentinel THEN batch
                ELSE InsertSuffixKeys(batch, "u", usage_parts, official_path),
                Tail(usages_), official_path)

\* for usage in &definition.usages { strip "?"; while !usage_parts.is_empty() { insert u_key } }
RECURSIVE InsertUsageKeys(_, _, _)
InsertUsageKeys(batch, usages_, official_path) ==
    IF usages_ = <<>> THEN batch
    ELSE InsertUsageKeys(
            InsertSuffixKeys(batch, "u", StripSentinel(Head(usages_).target_for_guesswork),
                             official_path),
            Tail(usages_), official_path)

\* The body of doc_add's loop for one definition
AddDefinition(batch, definition) ==
    LET official_path == Join(definition.official_path)
        withD == BatchInsert(batch, DKey(official_path), Serialize(definition))
        withC == InsertSuffixKeys(withD, "c", definition.official_path, official_path)
    IN  InsertUsageKeys(withC, definition.usages, official_path)

RECURSIVE AddDefinitions(_, _)
AddDefinitions(batch, defs) ==
    IF defs = {} THEN batch
    ELSE LET definition == CHOOSE d \in defs : TRUE
         IN  AddDefinitions(AddDefinition(batch, definition), defs \ {definition})

\* The batch doc_add builds for a file and its text
doc_add_batch(cpath, text) ==
    AddDefinitions(EmptyBatch, parse_anything_and_add_file_path(cpath, text))

\* Mutant of RemoveSuffixKeys: only the key of the whole sequence is removed
RemoveSuffixKeys_OnlyFull(batch, family, parts, official_path) ==
    IF parts = <<>> THEN batch
    ELSE BatchRemove(batch, IndexKey(family, Join(parts), official_path))

RECURSIVE RemoveSuffixKeys(_, _, _, _)
RemoveSuffixKeys(batch, family, parts, official_path) ==
    IF parts = <<>> THEN batch
    ELSE RemoveSuffixKeys(BatchRemove(batch, IndexKey(family, Join(parts), official_path)),
                          family, Tail(parts), official_path)

RECURSIVE RemoveUsageKeys(_, _, _)
RemoveUsageKeys(batch, usages_, official_path) ==
    IF usages_ = <<>> THEN batch
    ELSE RemoveUsageKeys(
            RemoveSuffixKeys(batch, "u", StripSentinel(Head(usages_).target_for_guesswork),
                             official_path),
            Tail(usages_), official_path)

\* Mutant of RemoveRecord: the u/ keys of the record are left behind
RemoveRecord_KeepsUsageKeys(batch, key, value) ==
    LET decoded == Deserialize(value)
        derived ==
            IF decoded.ok
            THEN RemoveSuffixKeys(batch, "c", decoded.val.official_path,
                                  Join(decoded.val.official_path))
            ELSE batch
    IN  BatchRemove(derived, key)

\* The body of doc_remove's loop for one scanned (key, value)
RemoveRecord(batch, key, value) ==
    LET decoded == Deserialize(value)
        derived ==
            IF decoded.ok
            THEN LET official_path == Join(decoded.val.official_path)
                 IN  RemoveUsageKeys(
                        RemoveSuffixKeys(batch, "c", decoded.val.official_path, official_path),
                        decoded.val.usages, official_path)
            ELSE batch
    IN  BatchRemove(derived, key)

RECURSIVE RemoveRecords(_, _, _)
RemoveRecords(batch, store, keys) ==
    IF keys = <<>> THEN batch
    ELSE RemoveRecords(RemoveRecord(batch, Head(keys), store[Head(keys)]), store, Tail(keys))

\* format!("d/{}", to_delete_prefix.join("::"))
DPrefix(cpath) == DKey(Join(filesystem_path_to_double_colon_path(cpath)))

\* The batch doc_remove builds from its scan of the store
doc_remove_batch(store, cpath) ==
    RemoveRecords(EmptyBatch, store, ScanPrefix(store, DPrefix(cpath)))

\* Mutant of AddStore: the records of the file are removed before the batch is applied
AddStore_ReplacesFile(store, cpath, text) ==
    ApplyBatch(ApplyBatch(store, doc_remove_batch(store, cpath)), doc_add_batch(cpath, text))

\* The store after doc_add(cpath, text) and after doc_remove(cpath), run alone
AddStore(store, cpath, text) == ApplyBatch(store, doc_add_batch(cpath, text))

RemoveStore(store, cpath) == ApplyBatch(store, doc_remove_batch(store, cpath))

-----------------------------------------------------------------------------
(* Queries *)

NoHit == [hit |-> FALSE, full_path |-> <<>>]

\* Mutant of IndexHit: the left part only has to start with the scanned prefix
IndexHit_PrefixMatch(key_string, prefix) ==
    IF Contains(key_string, SEP)
    THEN LET parts == Split(key_string, SEP)
         IN  IF Len(parts) = 2 /\ StartsWith(parts[1], prefix)
             THEN [hit |-> TRUE, full_path |-> Trim(parts[2])]
             ELSE [hit |-> FALSE, full_path |-> <<>>]
    ELSE [hit |-> FALSE, full_path |-> <<>>]

\* Mutant of IndexHit: a key of more than two parts is taken by its second part
IndexHit_AnyParts(key_string, prefix) ==
    IF Contains(key_string, SEP)
    THEN LET parts == Split(key_string, SEP)
         IN  IF Len(parts) >= 2 /\ parts[1] = prefix
             THEN [hit |-> TRUE, full_path |-> Trim(parts[2])]
             ELSE [hit |-> FALSE, full_path |-> <<>>]
    ELSE [hit |-> FALSE, full_path |-> <<>>]

\* The test of usages() and definitions() on one scanned key: the key holds the
\* separator, splits in exactly two parts, and its left part is the scanned prefix
IndexHit(key_string, prefix) ==
    IF Contains(key_string, SEP)
    THEN LET parts == Split(key_string, SEP)
         IN  IF Len(parts) = 2 /\ parts[1] = prefix
             THEN [hit |-> TRUE, full_path |-> Trim(parts[2])]
             ELSE NoHit
    ELSE NoHit

\* if let Ok(Some(d_value)) = db.get(d_key) { match from_slice(&d_value) { Ok(d) => push(d) } }
FetchDefinition(store, full_path) ==
    LET got == Get(store, DKey(full_path))
    IN  IF got.some /\ Deserialize(got.val).ok THEN <<Deserialize(got.val).val>> ELSE <<>>

\* The full paths of the scanned keys that pass the test, in scan order
RECURSIVE HitPaths(_, _)
HitPaths(keys, prefix) ==
    IF keys = <<>> THEN <<>>
    ELSE (IF IndexHit(Head(keys), prefix).hit THEN <<IndexHit(Head(keys), prefix).full_path>>
          ELSE <<>>) \o HitPaths(Tail(keys), prefix)

\* Mutant of FetchAll: the first value that does not decode ends the loop
RECURSIVE FetchAll_StopsAtFailure(_, _)
FetchAll_StopsAtFailure(store, paths) ==
    IF paths = <<>> THEN <<>>
    ELSE LET got == Get(store, DKey(Head(paths)))
         IN  IF got.some /\ ~Deserialize(got.val).ok THEN <<>>
             ELSE FetchDefinition(store, Head(paths))
                    \o FetchAll_StopsAtFailure(store, Tail(paths))

\* The loop over the hit paths, in usages() over every hit and in definitions() over
\* the group of the fewest "::": each d/ value that is found and decodes is pushed
RECURSIVE FetchAll(_, _)
FetchAll(store, paths) ==
    IF paths = <<>> THEN <<>>
    ELSE FetchDefinition(store, Head(paths)) \o FetchAll(store, Tail(paths))

\* Mutant of MinDepthGroup: no ranking, every path that was hit
MinDepthGroup_AllDepths(paths) == paths

\* Mutant of MinDepthGroup: of the paths with the fewest "::", only the first
MinDepthGroup_FirstOnly(paths) ==
    IF paths = <<>> THEN <<>>
    ELSE LET min_colon_count == Min({CountMatches(paths[i], COLONS) : i \in DOMAIN paths})
         IN  <<SelectSeq(paths, LAMBDA p : CountMatches(p, COLONS) = min_colon_count)[1]>>

\* path_groups.get(&min_colon_count): the paths with the fewest "::", in scan order
MinDepthGroup(paths) ==
    IF paths = <<>> THEN <<>>
    ELSE LET min_colon_count == Min({CountMatches(paths[i], COLONS) : i \in DOMAIN paths})
         IN  SelectSeq(paths, LAMBDA p : CountMatches(p, COLONS) = min_colon_count)

UPrefix(double_colon_path) == <<"u", "/">> \o double_colon_path

CPrefix(double_colon_path) == <<"c", "/">> \o double_colon_path

\* Mutant of usages: the scan stops at its first hit
usages_FirstHit(store, double_colon_path) ==
    LET paths == HitPaths(ScanPrefix(store, UPrefix(double_colon_path)),
                          UPrefix(double_colon_path))
    IN  IF paths = <<>> THEN <<>> ELSE FetchDefinition(store, Head(paths))

\* Mutant of usages: the hits are ranked by depth as in definitions()
usages_Ranked(store, double_colon_path) ==
    FetchAll(store, MinDepthGroup(HitPaths(ScanPrefix(store, UPrefix(double_colon_path)),
                                           UPrefix(double_colon_path))))

\* Mutant of usages: a definition is pushed once for every usage of it
RECURSIVE PerUsage(_)
PerUsage(defs) ==
    IF defs = <<>> THEN <<>>
    ELSE [i \in 1..Len(Head(defs).usages) |-> Head(defs)] \o PerUsage(Tail(defs))

usages_PerUsage(store, double_colon_path) ==
    PerUsage(FetchAll(store, HitPaths(ScanPrefix(store, UPrefix(double_colon_path)),
                                      UPrefix(double_colon_path))))

\* usages(), run alone on a store
usages(store, double_colon_path) ==
    FetchAll(store, HitPaths(ScanPrefix(store, UPrefix(double_colon_path)),
                             UPrefix(double_colon_path)))

\* Mutant of definitions: when no key has the left side c/Q, every key under the
\* prefix c/Q is taken
definitions_FuzzyFallback(store, double_colon_path) ==
    LET keys == ScanPrefix(store, CPrefix(double_colon_path))
        exact == HitPaths(keys, CPrefix(double_colon_path))
        fuzzy == [i \in DOMAIN keys |-> Trim(Split(keys[i], SEP)[Len(Split(keys[i], SEP))])]
    IN  FetchAll(store, MinDepthGroup(IF exact = <<>> THEN fuzzy ELSE exact))

\* Mutant of definitions: a call that follows a definitions call finds the result drained
definitions_Drained(store, double_colon_path) ==
    IF tasks["t1"].call.op = "definitions" THEN <<>>
    ELSE FetchAll(store, MinDepthGroup(HitPaths(ScanPrefix(store, CPrefix(double_colon_path)),
                                                CPrefix(double_colon_path))))

\* definitions(), run alone on a store
definitions(store, double_colon_path) ==
    FetchAll(store, MinDepthGroup(HitPaths(ScanPrefix(store, CPrefix(double_colon_path)),
                                           CPrefix(double_colon_path))))

\* while let Some(Ok((_, value))) = iter.next() { if let Ok(d) = from_slice(&value) { push(d) } }
RECURSIVE DecodeAll(_, _)
DecodeAll(store, keys) ==
    IF keys = <<>> THEN <<>>
    ELSE (IF Deserialize(store[Head(keys)]).ok THEN <<Deserialize(store[Head(keys)]).val>>
          ELSE <<>>) \o DecodeAll(store, Tail(keys))

\* doc_symbols(), run alone on a store
doc_symbols(store, cpath) == DecodeAll(store, ScanPrefix(store, DPrefix(cpath)))

-----------------------------------------------------------------------------
(* The index used by one caller: every call runs to completion before the next *)

IdleTask ==
    [pc |-> "idle", call |-> [op |-> "none", cpath |-> <<>>, text |-> <<>>, q |-> <<>>],
     batch |-> EmptyBatch, cursor |-> <<>>, hits |-> <<>>, out |-> <<>>, views |-> {}]

Tasks == {"t1", "t2"}

\* alt_index_init: the store is opened and cleared, the mutex is free
Init ==
    /\ db = EmptyStore
    /\ mutex = "free"
    /\ tasks = [t \in Tasks |-> IdleTask]
    /\ serial = EmptyStore
    /\ calls = 0
    /\ state_mutex = "free"

doc_add(cpath, text) ==
    /\ db' = AddStore(db, cpath, text)
    /\ UNCHANGED <<mutex, tasks, serial, calls, state_mutex>>

doc_remove(cpath) ==
    /\ db' = RemoveStore(db, cpath)
    /\ UNCHANGED <<mutex, tasks, serial, calls, state_mutex>>

Next ==
    \/ \E cpath \in CPaths, text \in Texts : doc_add(cpath, text)
    \/ \E cpath \in CPaths : doc_remove(cpath)

Spec == Init /\ [][Next]_vars

-----------------------------------------------------------------------------
(* The index used by one caller who also queries it.  History: the caller keeps *)
(* its last call and the value it returned.                                      *)

Caller == "t1"

\* The call has returned to the caller: what was called and the value returned
Returned(call, out) ==
    tasks' = [tasks EXCEPT ![Caller] = [IdleTask EXCEPT !.pc = "done", !.call = call, !.out = out]]

\* The texts the querying caller indexes
QueryTexts == {<<2, 3>>, <<1, 0>>, <<0, 1>>}

\* The paths the caller asks for: every suffix of every official path, a file prefix,
\* a scope name that is no symbol, and the empty string
Queries ==
    UNION {{Join(SubSeq(ScopePaths[i], j, Len(ScopePaths[i]))) : j \in 1..Len(ScopePaths[i])} :
              i \in DOMAIN ScopePaths}
      \cup {Join(filesystem_path_to_double_colon_path(cpath) \o ScopePaths[i]) :
                cpath \in CPaths, i \in DOMAIN ScopePaths}
      \cup {<<"a">>, <<"y">>, <<>>}

call_doc_add(cpath, text) ==
    /\ db' = AddStore(db, cpath, text)
    /\ Returned([op |-> "doc_add", cpath |-> cpath, text |-> text, q |-> <<>>], <<>>)
    /\ UNCHANGED <<mutex, serial, calls, state_mutex>>

call_doc_remove(cpath) ==
    /\ db' = RemoveStore(db, cpath)
    /\ Returned([op |-> "doc_remove", cpath |-> cpath, text |-> <<>>, q |-> <<>>], <<>>)
    /\ UNCHANGED <<mutex, serial, calls, state_mutex>>

\* The call has returned after it logged an error: what was called
ReturnedAfterError(call) ==
    tasks' = [tasks EXCEPT ![Caller] = [IdleTask EXCEPT !.pc = "error", !.call = call]]

\* doc_add whose db.apply_batch(batch) returns Err(e): tracing::error!, then return
call_doc_add_apply_err(cpath, text) ==
    /\ db' = ApplyFailed(db, doc_add_batch(cpath, text))
    /\ ReturnedAfterError([op |-> "doc_add", cpath |-> cpath, text |-> text, q |-> <<>>])
    /\ UNCHANGED <<mutex, serial, calls, state_mutex>>

\* doc_remove whose db.apply_batch(batch) returns Err(e): tracing::error!, then return
call_doc_remove_apply_err(cpath) ==
    /\ db' = ApplyFailed(db, doc_remove_batch(db, cpath))
    /\ ReturnedAfterError([op |-> "doc_remove", cpath |-> cpath, text |-> <<>>, q |-> <<>>])
    /\ UNCHANGED <<mutex, serial, calls, state_mutex>>

QueryCall(op, cpath, q) == [op |-> op, cpath |-> cpath, text |-> <<>>, q |-> q]

\* The process starts again on the store it left on disk: sled::open, db.clear(), and a
\* new AltIndex behind a new mutex
alt_index_init ==
    /\ db' = Clear(db)
    /\ mutex' = "free"
    /\ Returned(QueryCall("alt_index_init", <<>>, <<>>), <<>>)
    /\ UNCHANGED <<serial, calls, state_mutex>>

call_definitions(q) ==
    /\ Returned(QueryCall("definitions", <<>>, q), definitions(db, q))
    /\ UNCHANGED <<db, mutex, serial, calls, state_mutex>>

call_usages(q) ==
    /\ Returned(QueryCall("usages", <<>>, q), usages(db, q))
    /\ UNCHANGED <<db, mutex, serial, calls, state_mutex>>

call_doc_symbols(cpath) ==
    /\ Returned(QueryCall("doc_symbols", cpath, <<>>), doc_symbols(db, cpath))
    /\ UNCHANGED <<db, mutex, serial, calls, state_mutex>>

\* Mutant of connect_usages: the u/ keys of the store are resolved and dropped
connect_usages_Resolves ==
    /\ db' = [k \in {j \in DOMAIN db : j[1] # "u"} |-> db[k]]
    /\ Returned(QueryCall("connect_usages", <<>>, <<>>), <<>>)
    /\ UNCHANGED <<mutex, serial, calls, state_mutex>>

\* async fn connect_usages(altindex) { }
connect_usages ==
    /\ Returned(QueryCall("connect_usages", <<>>, <<>>), <<>>)
    /\ UNCHANGED <<db, mutex, serial, calls, state_mutex>>

\* Mutant of dump_database: the items that are printed are taken out of the store
dump_database_Drains ==
    /\ db' = EmptyStore
    /\ Returned(QueryCall("dump_database", <<>>, <<>>), <<>>)
    /\ UNCHANGED <<mutex, serial, calls, state_mutex>>

\* dump_database: iterates over the store and prints; nothing is written or returned
dump_database ==
    /\ Returned(QueryCall("dump_database", <<>>, <<>>), <<>>)
    /\ UNCHANGED <<db, mutex, serial, calls, state_mutex>>

NextQuery ==
    \/ \E cpath \in CPaths, text \in QueryTexts : call_doc_add(cpath, text)
    \/ \E cpath \in CPaths : call_doc_remove(cpath)
    \/ \E q \in Queries : call_definitions(q)
    \/ \E q \in Queries : call_usages(q)
    \/ \E cpath \in CPaths : call_doc_symbols(cpath)
    \/ connect_usages
    \/ dump_database
    \/ \E cpath \in CPaths, text \in QueryTexts : call_doc_add_apply_err(cpath, text)
    \/ \E cpath \in CPaths : call_doc_remove_apply_err(cpath)
    \/ alt_index_init

SpecQuery == Init /\ [][NextQuery]_vars

-----------------------------------------------------------------------------
(* The index on a damaged store: keys written to the store directly that are   *)
(* no index keys, and values under d/ that are no serialized definition        *)

\* Keys under the scanned prefixes u/x and c/x with two separators and with none
MalformedKeys ==
    {UPrefix(<<"x">>) \o SEP \o <<"a", ":", ":", "x">> \o SEP \o <<"b">>,
     CPrefix(<<"x">>) \o SEP \o <<"a", ":", ":", "x">> \o SEP \o <<"b">>,
     UPrefix(<<"x">>),
     CPrefix(<<"x">>)}

\* Bytes that are no serialized AltDefinition
Garbage == HUU

\* The text indexed on the damaged store: x with the usages ?::x and ?, and y::x
\* with the usages y::x, x and an empty target
DamagedTexts == {<<2, 3>>}

DamagedQueries == {<<"x">>, <<"y", ":", ":", "x">>}

\* The d/ keys of the definitions a file of the model may declare
RecordKeys ==
    {DKey(Join(filesystem_path_to_double_colon_path(cpath) \o ScopePaths[i])) :
        cpath \in CPaths, i \in DOMAIN ScopePaths}

\* sled::Db::insert of a key that is no index key, past doc_add
inject_key(k) ==
    /\ k \notin DOMAIN db
    /\ db' = [j \in DOMAIN db \cup {k} |-> IF j = k THEN HUU ELSE db[j]]
    /\ Returned(QueryCall("inject_key", <<>>, k), <<>>)
    /\ UNCHANGED <<mutex, serial, calls, state_mutex>>

\* The value of a d/ key is overwritten by bytes that do not decode
corrupt_value(k) ==
    /\ k \in DOMAIN db
    /\ k[1] = "d"
    /\ Deserialize(db[k]).ok
    /\ db' = [db EXCEPT ![k] = Garbage]
    /\ Returned(QueryCall("corrupt_value", <<>>, k), <<>>)
    /\ UNCHANGED <<mutex, serial, calls, state_mutex>>

NextDamaged ==
    \/ \E cpath \in CPaths, text \in DamagedTexts : call_doc_add(cpath, text)
    \/ \E cpath \in CPaths : call_doc_remove(cpath)
    \/ \E k \in MalformedKeys : inject_key(k)
    \/ \E k \in RecordKeys : corrupt_value(k)
    \/ \E q \in DamagedQueries : call_definitions(q)
    \/ \E q \in DamagedQueries : call_usages(q)
    \/ \E cpath \in CPaths : call_doc_symbols(cpath)

SpecDamaged == Init /\ [][NextDamaged]_vars

-----------------------------------------------------------------------------
(* A query that bounds its wait for the index mutex: the lock is awaited under *)
(* timeout(Duration::from_secs(3), ..), while another task holds the guard for *)
(* the whole of its write                                                      *)

\* The task that holds the mutex
Holder == "t2"

BusyTexts == {<<2, 3>>, <<0, 1>>}

BusyQueries == {<<"x">>, <<"y", ":", ":", "x">>, <<"y">>}

\* self.ast_index.lock().await: the other task takes the mutex and keeps the guard
Hold ==
    /\ mutex = "free"
    /\ tasks[Holder].pc = "idle"
    /\ mutex' = Holder
    /\ tasks' = [tasks EXCEPT ![Holder].pc = "stalled"]
    /\ UNCHANGED <<db, serial, calls, state_mutex>>

\* .add_or_update(&document): a write made under the guard
HolderWrite(cpath, text) ==
    /\ mutex = Holder
    /\ db' = AddStore(db, cpath, text)
    /\ UNCHANGED <<mutex, tasks, serial, calls, state_mutex>>

\* The end of the holder's statement: the guard is dropped
Unhold ==
    /\ mutex = Holder
    /\ mutex' = "free"
    /\ tasks' = [tasks EXCEPT ![Holder].pc = "idle"]
    /\ UNCHANGED <<db, serial, calls, state_mutex>>

\* The caller starts a query: timeout(Duration::from_secs(3), ast_index.lock()) is awaited
TimedCall(q) ==
    /\ tasks[Caller].pc \in {"idle", "done", "busy"}
    /\ tasks' = [tasks EXCEPT ![Caller] =
                    [IdleTask EXCEPT !.pc = "lock", !.call = QueryCall("definitions", <<>>, q)]]
    /\ UNCHANGED <<db, mutex, serial, calls, state_mutex>>

\* Ok(lock) => lock
TimedAcquire ==
    /\ tasks[Caller].pc = "lock"
    /\ mutex = "free"
    /\ mutex' = Caller
    /\ tasks' = [tasks EXCEPT ![Caller].pc = "locked"]
    /\ UNCHANGED <<db, serial, calls, state_mutex>>

\* The search runs under the guard and returns Ok(results); the guard is dropped on return
TimedSearch ==
    /\ tasks[Caller].pc = "locked"
    /\ mutex' = "free"
    /\ Returned(tasks[Caller].call, definitions(db, tasks[Caller].call.q))
    /\ UNCHANGED <<db, serial, calls, state_mutex>>

\* Mutant of Timeout: the query that gives up breaks the lock of the holder
Timeout_BreaksLock ==
    /\ tasks[Caller].pc = "lock"
    /\ mutex \notin {"free", Caller}
    /\ mutex' = "free"
    /\ tasks' = [tasks EXCEPT ![Caller].pc = "busy"]
    /\ UNCHANGED <<db, serial, calls, state_mutex>>

\* Err(_) => return Err("Ast index is busy, timeout error"): three seconds have passed
\* and the mutex was held by another task all along
Timeout ==
    /\ tasks[Caller].pc = "lock"
    /\ mutex \notin {"free", Caller}
    /\ tasks' = [tasks EXCEPT ![Caller].pc = "busy"]
    /\ UNCHANGED <<db, mutex, serial, calls, state_mutex>>

NextBusy ==
    \/ Hold
    \/ \E cpath \in CPaths, text \in BusyTexts : HolderWrite(cpath, text)
    \/ Unhold
    \/ \E q \in BusyQueries : TimedCall(q)
    \/ TimedAcquire
    \/ TimedSearch
    \/ Timeout

SpecBusy == Init /\ [][NextBusy]_vars

-----------------------------------------------------------------------------
(* The index used by concurrent tasks.  Each async fn is split at the points   *)
(* where it touches the mutex or the store: lock().await (Acquire), the end of *)
(* the statement `altindex.lock().await.sleddb.clone()`, where the temporary   *)
(* guard is dropped (Release), every iter.next() (ScanStep), every db.get()    *)
(* (FetchStep) and db.apply_batch() (Apply).  What a task computes on its own  *)
(* locals between two such points is part of the step that follows.            *)

\* The most calls the tasks issue in one run
MaxCalls == 3

\* The texts and the query the concurrent tasks use
ConcTexts == {<<2, 3>>, <<1, 0>>}

ConcQueries == {<<"x">>}

CallSet ==
    {[op |-> "doc_add", cpath |-> c, text |-> t, q |-> <<>>] : c \in CPaths, t \in ConcTexts}
        \cup {[op |-> "doc_remove", cpath |-> c, text |-> <<>>, q |-> <<>>] : c \in CPaths}
        \cup {[op |-> o, cpath |-> <<>>, text |-> <<>>, q |-> q] :
                o \in {"usages", "definitions"}, q \in ConcQueries}

IsQuery(call) == call.op \in {"usages", "definitions"}

\* What the query of the call returns when it runs alone on the store
QueryResult(store, call) ==
    IF call.op = "usages" THEN usages(store, call.q) ELSE definitions(store, call.q)

\* The prefix the call scans
ScanPrefixOf(call) ==
    CASE call.op = "doc_remove" -> DPrefix(call.cpath)
      [] call.op = "usages" -> UPrefix(call.q)
      [] OTHER -> CPrefix(call.q)

\* iter.next(): the first key of the store, as it is now, after the last key returned
NextKeys(store, prefix, cursor) ==
    {k \in DOMAIN store : StartsWith(k, prefix) /\ (cursor = <<>> \/ KeyLess(cursor, k))}

\* History: the store after the call, had it run alone
SerialStep(store, call) ==
    CASE call.op = "doc_add" -> AddStore(store, call.cpath, call.text)
      [] call.op = "doc_remove" -> RemoveStore(store, call.cpath)
      [] OTHER -> store

\* A task calls one of the async fns
Call(t, call) ==
    /\ tasks[t].pc \in {"idle", "done"}
    /\ calls < MaxCalls
    /\ calls' = calls + 1
    /\ tasks' = [tasks EXCEPT ![t] =
            [IdleTask EXCEPT !.pc = "lock", !.call = call,
                !.views = IF IsQuery(call) THEN {QueryResult(db, call)} ELSE {}]]
    /\ UNCHANGED <<db, mutex, serial, state_mutex>>

\* altindex.lock().await
Acquire(t) ==
    /\ tasks[t].pc = "lock"
    /\ mutex = "free"
    /\ mutex' = t
    /\ tasks' = [tasks EXCEPT ![t].pc = "locked"]
    /\ serial' = SerialStep(serial, tasks[t].call)
    /\ UNCHANGED <<db, calls, state_mutex>>

\* .sleddb.clone(); the guard is a temporary of the let statement and is dropped at its end
Release(t) ==
    /\ tasks[t].pc = "locked"
    /\ mutex' = "free"
    /\ tasks' = [tasks EXCEPT
            ![t].pc = IF tasks[t].call.op = "doc_add" THEN "apply" ELSE "scan",
            ![t].batch = IF tasks[t].call.op = "doc_add"
                         THEN doc_add_batch(tasks[t].call.cpath, tasks[t].call.text)
                         ELSE EmptyBatch]
    /\ UNCHANGED <<db, serial, calls, state_mutex>>

\* The group of paths definitions() fetches once its scan is over
AfterScan(task) ==
    IF task.call.op = "definitions" THEN MinDepthGroup(task.hits) ELSE <<>>

\* One iter.next() of the scan loop of doc_remove, usages or definitions, and the
\* body of the loop up to its next read of the store
ScanStep(t) ==
    LET task == tasks[t]
        prefix == ScanPrefixOf(task.call)
        rest == NextKeys(db, prefix, task.cursor)
        key == CHOOSE k \in rest : \A j \in rest \ {k} : KeyLess(k, j)
        h == IndexHit(key, prefix)
    IN  /\ task.pc = "scan"
        /\ tasks' = [tasks EXCEPT ![t] =
             IF rest = {}
             THEN CASE task.call.op = "doc_remove" -> [task EXCEPT !.pc = "apply"]
                    [] task.call.op = "usages" -> [task EXCEPT !.pc = "done"]
                    [] OTHER -> [task EXCEPT !.hits = AfterScan(task),
                                    !.pc = IF AfterScan(task) = <<>> THEN "done" ELSE "fetch"]
             ELSE CASE task.call.op = "doc_remove" ->
                        [task EXCEPT !.cursor = key,
                                     !.batch = RemoveRecord(task.batch, key, db[key])]
                    [] task.call.op = "usages" ->
                        [task EXCEPT !.cursor = key,
                                     !.hits = IF h.hit THEN <<h.full_path>> ELSE <<>>,
                                     !.pc = IF h.hit THEN "fetch" ELSE "scan"]
                    [] OTHER ->
                        [task EXCEPT !.cursor = key,
                                     !.hits = IF h.hit THEN Append(task.hits, h.full_path)
                                              ELSE task.hits]]
        /\ UNCHANGED <<db, mutex, serial, calls, state_mutex>>

\* One db.get(d_key) of usages or definitions, and the push of the decoded record
FetchStep(t) ==
    LET task == tasks[t]
    IN  /\ task.pc = "fetch"
        /\ tasks' = [tasks EXCEPT ![t] =
             [task EXCEPT !.out = task.out \o FetchDefinition(db, Head(task.hits)),
                          !.hits = Tail(task.hits),
                          !.pc = IF task.call.op = "usages" THEN "scan"
                                 ELSE IF Tail(task.hits) = <<>> THEN "done" ELSE "fetch"]]
        /\ UNCHANGED <<db, mutex, serial, calls, state_mutex>>

\* db.apply_batch(batch) of doc_add or doc_remove.  History: every query under way
\* notes what it would return on the new store.
Apply(t) ==
    /\ tasks[t].pc = "apply"
    /\ db' = ApplyBatch(db, tasks[t].batch)
    /\ tasks' = [u \in Tasks |->
            IF u = t THEN [tasks[t] EXCEPT !.pc = "done"]
            ELSE IF IsQuery(tasks[u].call) /\ tasks[u].pc # "done"
                 THEN [tasks[u] EXCEPT !.views = @ \cup {QueryResult(db', tasks[u].call)}]
                 ELSE tasks[u]]
    /\ UNCHANGED <<mutex, serial, calls, state_mutex>>

NextConc ==
    \E t \in Tasks :
        \/ \E call \in CallSet : Call(t, call)
        \/ Acquire(t)
        \/ Release(t)
        \/ ScanStep(t)
        \/ FetchStep(t)
        \/ Apply(t)

SpecConc == Init /\ [][NextConc]_vars

-----------------------------------------------------------------------------
(* The five async fns called by concurrent tasks under fair scheduling.        *)
(* doc_symbols takes the AMutex<AltState> and then, with that guard in hand,   *)
(* the AMutex<AltIndex>; both guards are temporaries of one statement and are  *)
(* dropped at its end.  tokio's Mutex hands the lock to its waiters in FIFO    *)
(* order, so a task that keeps asking for it is served.                        *)

\* The most calls the tasks issue in one fair run
MaxFairCalls == 3

FairCallSet ==
    {[op |-> "doc_add", cpath |-> <<"a", ".", "h">>, text |-> <<2, 3>>, q |-> <<>>],
     [op |-> "doc_remove", cpath |-> <<"a", ".", "h">>, text |-> <<>>, q |-> <<>>],
     [op |-> "usages", cpath |-> <<>>, text |-> <<>>, q |-> <<"x">>],
     [op |-> "definitions", cpath |-> <<>>, text |-> <<>>, q |-> <<"x">>]}

\* A task calls doc_add, doc_remove, usages or definitions
FairCall(t, call) ==
    /\ tasks[t].pc \in {"idle", "done"}
    /\ calls < MaxFairCalls
    /\ calls' = calls + 1
    /\ tasks' = [tasks EXCEPT ![t] = [IdleTask EXCEPT !.pc = "lock", !.call = call]]
    /\ UNCHANGED <<db, mutex, serial, state_mutex>>

\* A task calls doc_symbols
CallSymbols(t, cpath) ==
    /\ tasks[t].pc \in {"idle", "done"}
    /\ calls < MaxFairCalls
    /\ calls' = calls + 1
    /\ tasks' = [tasks EXCEPT ![t] =
            [IdleTask EXCEPT !.pc = "state_lock", !.call = QueryCall("doc_symbols", cpath, <<>>)]]
    /\ UNCHANGED <<db, mutex, serial, state_mutex>>

\* altindex.lock().await of doc_symbols: the AltState mutex
AcquireState(t) ==
    /\ tasks[t].pc = "state_lock"
    /\ state_mutex = "free"
    /\ state_mutex' = t
    /\ tasks' = [tasks EXCEPT ![t].pc = "index_lock"]
    /\ UNCHANGED <<db, mutex, serial, calls>>

\* .alt_index.lock().await of doc_symbols: the AltIndex mutex, the AltState guard in hand
AcquireIndex(t) ==
    /\ tasks[t].pc = "index_lock"
    /\ mutex = "free"
    /\ mutex' = t
    /\ tasks' = [tasks EXCEPT ![t].pc = "both_locked"]
    /\ UNCHANGED <<db, serial, calls, state_mutex>>

\* Mutant of ReleaseBoth: the guard of the AltState mutex is kept
ReleaseBoth_KeepsState(t) ==
    /\ tasks[t].pc = "both_locked"
    /\ mutex' = "free"
    /\ tasks' = [tasks EXCEPT ![t].pc = "symbols"]
    /\ UNCHANGED <<db, serial, calls, state_mutex>>

\* .sleddb.clone(); at the end of the statement both guards are dropped
ReleaseBoth(t) ==
    /\ tasks[t].pc = "both_locked"
    /\ mutex' = "free"
    /\ state_mutex' = "free"
    /\ tasks' = [tasks EXCEPT ![t].pc = "symbols"]
    /\ UNCHANGED <<db, serial, calls>>

\* One iter.next() of doc_symbols' loop: the value is decoded and pushed
SymbolsStep(t) ==
    LET task == tasks[t]
        rest == NextKeys(db, DPrefix(task.call.cpath), task.cursor)
        key == CHOOSE k \in rest : \A j \in rest \ {k} : KeyLess(k, j)
    IN  /\ task.pc = "symbols"
        /\ tasks' = [tasks EXCEPT ![t] =
             IF rest = {} THEN [task EXCEPT !.pc = "done"]
             ELSE [task EXCEPT !.cursor = key,
                               !.out = task.out \o DecodeAll(db, <<key>>)]]
        /\ UNCHANGED <<db, mutex, serial, calls, state_mutex>>

\* The steps of a call that is under way
Progress(t) ==
    \/ Release(t)
    \/ ScanStep(t)
    \/ FetchStep(t)
    \/ Apply(t)
    \/ ReleaseBoth(t)
    \/ SymbolsStep(t)

NextFair ==
    \E t \in Tasks :
        \/ \E call \in FairCallSet : FairCall(t, call)
        \/ \E cpath \in {<<"a", ".", "h">>} : CallSymbols(t, cpath)
        \/ Acquire(t)
        \/ AcquireState(t)
        \/ AcquireIndex(t)
        \/ Release(t)
        \/ ScanStep(t)
        \/ FetchStep(t)
        \/ Apply(t)
        \/ ReleaseBoth(t)
        \/ SymbolsStep(t)

\* Progress(t) is enabled: the call of t stands at a step that waits for nothing
CanProgress(t) ==
    tasks[t].pc \in {"locked", "scan", "fetch", "apply", "both_locked", "symbols"}

\* Acquire(t), AcquireState(t) or AcquireIndex(t) is enabled: t waits for a mutex that
\* is free
CanAcquire(t) ==
    \/ tasks[t].pc \in {"lock", "index_lock"} /\ mutex = "free"
    \/ tasks[t].pc = "state_lock" /\ state_mutex = "free"

AcquireAny(t) == Acquire(t) \/ AcquireState(t) \/ AcquireIndex(t)

\* Weak fairness of Progress(t): a task that can step does step.  Strong fairness of
\* the acquisitions: a task that waits for a mutex gets it when the mutex is free again
\* and again.  WF_vars and SF_vars are written out, with the guards of the actions in
\* the place of ENABLED.
SpecFair ==
    /\ Init
    /\ [][NextFair]_vars
    /\ \A t \in Tasks :
        /\ ([]<>(~CanProgress(t))) \/ ([]<><<Progress(t)>>_vars)
        /\ (<>[](~CanAcquire(t))) \/ ([]<><<AcquireAny(t)>>_vars)

-----------------------------------------------------------------------------
(* Vocabulary of the properties *)

\* Every official path a text of the model can declare
OfficialPaths ==
    {filesystem_path_to_double_colon_path(cpath) \o ScopePaths[i] :
        cpath \in CPaths, i \in DOMAIN ScopePaths}

\* The non-empty suffixes of a component sequence
Suffixes(parts) == {SubSeq(parts, i, Len(parts)) : i \in 1..Len(parts)}

\* The c/ or u/ keys that lead from the suffixes of parts to the official path P
SuffixKeys(family, parts, P) ==
    {<<family, "/">> \o Join(S) \o SEP \o Join(P) : S \in Suffixes(parts)}

\* A usage target without its leading "?" component
WithoutSentinel(target) ==
    IF Len(target) > 0 /\ target[1] = <<"?">> THEN SubSeq(target, 2, Len(target)) ELSE target

KeysOfFamily(store, family) == {k \in DOMAIN store : k[1] = family}

\* The official path a key names: the rest of a d/ key, the right side of a c/ or u/ key
OfficialPathOf(k) ==
    IF k[1] = "d" THEN SubSeq(k, 3, Len(k))
    ELSE LET parts == Split(k, SEP) IN parts[Len(parts)]

\* The string begins with the component sequence prefix
UnderPrefix(str, prefix) ==
    str = Join(prefix) \/ StartsWith(str, Join(prefix) \o COLONS)

\* The keys of the store that belong to the file: their official path lies under its prefix
FileKeys(store, cpath) ==
    {k \in DOMAIN store :
        UnderPrefix(OfficialPathOf(k), filesystem_path_to_double_colon_path(cpath))}

\* The file is Present: some d/ key lies under its prefix
Present(store, cpath) == FileKeys(store, cpath) \cap KeysOfFamily(store, "d") # {}

\* The definition stored at a d/ key
StoredDefinition(store, k) == Deserialize(store[k]).val

\* The keys that one definition induces
InducedKeys(definition) ==
    {<<"d", "/">> \o Join(definition.official_path)}
        \cup SuffixKeys("c", definition.official_path, definition.official_path)
        \cup UNION {SuffixKeys("u", WithoutSentinel(definition.usages[i].target_for_guesswork),
                               definition.official_path) : i \in DOMAIN definition.usages}

\* Some u/ key points at a path that has no record: a usage key that outlived its definition
StaleUsageKey(store) ==
    \E k \in KeysOfFamily(store, "u") : <<"d", "/">> \o OfficialPathOf(k) \notin DOMAIN store

-----------------------------------------------------------------------------
(* Properties of doc_add and doc_remove run one after another *)

\* C1: in every reachable store and for every path P, d/P is present exactly when the
\* c/ keys pointing at P are the keys c/S ^ P of the non-empty suffixes S of P; their
\* number is the number of components of P when d/P is present and zero when absent.
C1_SuffixIndexConsistent ==
    /\ \A k \in KeysOfFamily(db, "c") : \E P \in OfficialPaths : OfficialPathOf(k) = Join(P)
    /\ \A P \in OfficialPaths :
        LET pointing == {k \in KeysOfFamily(db, "c") : OfficialPathOf(k) = Join(P)}
            present == (<<"d", "/">> \o Join(P)) \in DOMAIN db
        IN  /\ present <=> (pointing = SuffixKeys("c", P, P))
            /\ Cardinality(pointing) = IF present THEN Len(P) ELSE 0

C1_Witness ==
    /\ \E P \in OfficialPaths : Len(P) = 3 /\ (<<"d", "/">> \o Join(P)) \in DOMAIN db
    /\ StaleUsageKey(db)

\* C2: in every reachable store, for every stored definition d/P, every usage of it and
\* every non-empty suffix S of the usage's target without its leading "?", the key
\* u/S ^ P is present.
C2_UsageKeysPresent ==
    \A k \in KeysOfFamily(db, "d") :
        LET definition == StoredDefinition(db, k)
        IN  \A i \in DOMAIN definition.usages :
                SuffixKeys("u", WithoutSentinel(definition.usages[i].target_for_guesswork),
                           definition.official_path) \subseteq DOMAIN db

C2_Witness ==
    /\ \E k \in KeysOfFamily(db, "d") :
        \E i \in DOMAIN StoredDefinition(db, k).usages :
            LET target == StoredDefinition(db, k).usages[i].target_for_guesswork
            IN  Len(target) = 2 /\ target[1] = <<"?">>
    /\ StaleUsageKey(db)

\* C3: immediately after doc_remove(p) the store holds no d/ key whose path begins with
\* the canonical prefix of p and no c/ or u/ key whose right side begins with it.
C3_NoKeyOfFileAfterRemove ==
    [][\A cpath \in CPaths : doc_remove(cpath) => FileKeys(db', cpath) = {}]_vars

NoKeyMentions(store, cpath) ==
    \A k \in DOMAIN store :
        ~StartsWith(OfficialPathOf(k), Join(filesystem_path_to_double_colon_path(cpath)))

C5_AddReplaces ==
    [][\A cpath \in CPaths, text \in Texts :
          (Present(db, cpath) /\ doc_add(cpath, text)) =>
              FileKeys(db', cpath) =
                  UNION {InducedKeys(d) : d \in parse_anything_and_add_file_path(cpath, text)}]_vars

\* C6: doc_remove(f) leaves every key of every other file g, and its value, as it was.
C6_RemoveLeavesOtherFiles ==
    [][\A f \in CPaths, g \in CPaths :
          (f # g /\ doc_remove(f)) =>
              /\ FileKeys(db', g) = FileKeys(db, g)
              /\ \A k \in FileKeys(db, g) : db'[k] = db[k]]_vars

-----------------------------------------------------------------------------
(* Properties of concurrent calls *)

\* The step from store before to store after applied the whole batch and nothing else
BatchWhollyApplied(before, after, batch) ==
    /\ \A k \in DOMAIN batch.writes : k \in DOMAIN after /\ after[k] = batch.writes[k]
    /\ \A k \in batch.removes : k \notin DOMAIN after
    /\ \A k \in (DOMAIN before \cup DOMAIN after) \ (DOMAIN batch.writes \cup batch.removes) :
          k \in DOMAIN before /\ k \in DOMAIN after /\ after[k] = before[k]

\* C7: each doc_add and each doc_remove changes the store in one atomic step: whenever
\* the store changes, under any interleaving, some call's batch has been applied as a
\* whole (all of its keys) and no other key has changed; a call's batch is never part
\* applied.
C7_OneAtomicBatch ==
    [][db' # db =>
          \E t \in Tasks :
              /\ tasks[t].pc = "apply" /\ tasks'[t].pc = "done"
              /\ tasks[t].call.op \in {"doc_add", "doc_remove"}
              /\ BatchWhollyApplied(db, db', tasks[t].batch)
              /\ \A u \in Tasks \ {t} : tasks'[u].pc = tasks[u].pc]_vars

\* A doc_remove is about to apply a batch of several keys while the other task is in
\* the middle of its own scan
C7_Witness ==
    \E t \in Tasks, u \in Tasks :
        /\ t # u
        /\ tasks[t].pc = "apply" /\ tasks[t].call.op = "doc_remove"
        /\ Cardinality(tasks[t].batch.removes) > 3
        /\ tasks[u].pc \in {"scan", "fetch"} /\ tasks[u].cursor # <<>>

\* C8: a definitions or usages call that runs concurrently with doc_add / doc_remove
\* returns what the same query gives on one single store state that existed while it
\* ran (before or after each concurrent batch), never a mix of two states.
C8_NoPartialQuery ==
    \A t \in Tasks :
        (tasks[t].pc = "done" /\ IsQuery(tasks[t].call)) => tasks[t].out \in tasks[t].views

\* C9: when all calls have returned, the store is the store obtained by running the
\* calls one after another in the order in which they acquired the mutex.
C9_LinearizedInMutexOrder ==
    (\A t \in Tasks : tasks[t].pc \in {"idle", "done"}) => db = serial

InSection(t) == tasks[t].pc \in {"scan", "fetch", "apply"}

\* C10: every operation performs its store scan and its batch apply while holding the
\* index mutex, so no two operations are inside their scan/batch section at once.
C10_ScanAndBatchUnderMutex ==
    \A t \in Tasks :
        InSection(t) => (mutex = t /\ \A u \in Tasks \ {t} : ~InSection(u))

-----------------------------------------------------------------------------
(* Properties of the queries *)

\* The elements of a result
AsSet(seq) == {seq[i] : i \in DOMAIN seq}

\* The components of a queried path
Components(q) == Split(q, COLONS)

\* The component sequence parts ends with the component sequence comps
EndsWith(parts, comps) ==
    /\ Len(comps) <= Len(parts)
    /\ SubSeq(parts, Len(parts) - Len(comps) + 1, Len(parts)) = comps

\* The component sequence parts begins with the component sequence comps
BeginsWith(parts, comps) ==
    /\ Len(comps) <= Len(parts)
    /\ SubSeq(parts, 1, Len(comps)) = comps

StoredDefinitions(store) ==
    {StoredDefinition(store, k) : k \in KeysOfFamily(store, "d")}

\* The definition belongs to the file: its official path begins with the file's prefix
OfFile(definition, cpath) ==
    BeginsWith(definition.official_path, filesystem_path_to_double_colon_path(cpath))

\* The caller's last call was op and has returned
HasReturned(op) == tasks[Caller].pc = "done" /\ tasks[Caller].call.op = op

\* With one caller, a query issued after a write has returned observes the write:
\* after doc_add(f, t), definitions(path(D)) and doc_symbols(f) include every D of
\* parse(f, t); after doc_remove(f) they include no definition of f.
ReadAfterWriteOneCaller ==
    LET cpath == tasks[Caller].call.cpath
        text == tasks[Caller].call.text
    IN  /\ HasReturned("doc_add") =>
              \A D \in parse_anything_and_add_file_path(cpath, text) :
                  /\ D \in AsSet(definitions(db, path(D)))
                  /\ D \in AsSet(doc_symbols(db, cpath))
        /\ HasReturned("doc_remove") =>
              /\ \A D \in AsSet(doc_symbols(db, cpath)) : ~OfFile(D, cpath)
              /\ \A i \in DOMAIN ScopePaths :
                    \A D \in AsSet(definitions(db,
                               Join(filesystem_path_to_double_colon_path(cpath) \o ScopePaths[i]))) :
                        ~OfFile(D, cpath)

\* The write of D is the last word on its path in the order of the mutex: the store
\* of the calls run one after another in that order holds D
LastWordOn(D) ==
    /\ DKey(path(D)) \in DOMAIN serial
    /\ serial[DKey(path(D))] = Serialize(D)

\* C11: a query issued after a write has returned observes the write.  Once a task's
\* doc_add(f, t) has returned, and as long as no call that took the mutex after it
\* removed or replaced D, definitions(path(D)) and doc_symbols(f) include D for every
\* D of parse(f, t); once doc_remove(f) has returned, and as long as no call that took
\* the mutex after it wrote a definition of f, doc_symbols(f) and definitions(path(D))
\* include no definition of f.
C11_ReadAfterWrite ==
    \A t \in Tasks :
        LET cpath == tasks[t].call.cpath
            text == tasks[t].call.text
        IN  /\ (tasks[t].pc = "done" /\ tasks[t].call.op = "doc_add") =>
                  \A D \in parse_anything_and_add_file_path(cpath, text) :
                      LastWordOn(D) =>
                          /\ D \in AsSet(definitions(db, path(D)))
                          /\ D \in AsSet(doc_symbols(db, cpath))
            /\ (/\ tasks[t].pc = "done" /\ tasks[t].call.op = "doc_remove"
                /\ ~Present(serial, cpath)) =>
                      /\ \A D \in AsSet(doc_symbols(db, cpath)) : ~OfFile(D, cpath)
                      /\ \A i \in DOMAIN ScopePaths :
                            \A D \in AsSet(definitions(db,
                                  Join(filesystem_path_to_double_colon_path(cpath)
                                           \o ScopePaths[i]))) :
                                ~OfFile(D, cpath)

\* C12: for every stored definition D, definitions called with the full official path
\* of D joined by "::" returns exactly the one-element result <<D>>.
C12_FullPathGivesTheDefinition ==
    HasReturned("definitions") =>
        \A D \in StoredDefinitions(db) :
            tasks[Caller].call.q = path(D) => tasks[Caller].out = <<D>>

\* The caller asked for the full path a::y::x while a::x, ab::x and ab::y::x are
\* stored too
C12_Witness ==
    /\ HasReturned("definitions")
    /\ Cardinality(StoredDefinitions(db)) = 4
    /\ Len(Components(tasks[Caller].call.q)) = 3
    /\ Len(tasks[Caller].out) = 1

\* The stored definitions whose official path ends with the component sequence of q
Matching(store, q) ==
    {D \in StoredDefinitions(store) : EndsWith(D.official_path, Components(q))}

\* Those of the fewest path components among a set of definitions
Shallowest(S) ==
    {D \in S : \A E \in S : Len(D.official_path) <= Len(E.official_path)}

\* C13: whenever definitions(Q) returns a non-empty result, all returned definitions
\* have the same number of path components, and that number is the minimum over all
\* stored definitions whose official path ends with the component sequence Q.
C13_DepthOrdering ==
    (HasReturned("definitions") /\ tasks[Caller].out # <<>>) =>
        /\ Matching(db, tasks[Caller].call.q) # {}
        /\ \A D \in AsSet(tasks[Caller].out) :
              \A E \in Matching(db, tasks[Caller].call.q) :
                  Len(D.official_path) <= Len(E.official_path)
        /\ AsSet(tasks[Caller].out) \subseteq Matching(db, tasks[Caller].call.q)
        /\ \A D \in AsSet(tasks[Caller].out), E \in AsSet(tasks[Caller].out) :
              Len(D.official_path) = Len(E.official_path)

\* definitions has returned while a stored definition that ends with Q lies deeper
\* than the ones returned
C13_Witness ==
    /\ HasReturned("definitions")
    /\ tasks[Caller].out # <<>>
    /\ \E E \in Matching(db, tasks[Caller].call.q) :
          \A D \in AsSet(tasks[Caller].out) : Len(E.official_path) > Len(D.official_path)

\* C14: definitions(Q) returns every stored definition whose official path ends with
\* the component sequence Q and has the minimum depth among them (ties are all
\* returned); when exactly one such definition exists the result has one element.
C14_AllShallowestReturned ==
    HasReturned("definitions") =>
        /\ Shallowest(Matching(db, tasks[Caller].call.q)) \subseteq AsSet(tasks[Caller].out)
        /\ Cardinality(Shallowest(Matching(db, tasks[Caller].call.q))) = 1 =>
              Len(tasks[Caller].out) = 1

\* definitions has returned two definitions of the same depth, one of each file
C14_Witness ==
    /\ HasReturned("definitions")
    /\ Len(tasks[Caller].out) = 2
    /\ \E f \in CPaths, g \in CPaths :
          f # g /\ OfFile(tasks[Caller].out[1], f) /\ OfFile(tasks[Caller].out[2], g)
    /\ Cardinality(Matching(db, tasks[Caller].call.q)) = 4

References(D, q) ==
    \E i \in DOMAIN D.usages :
        EndsWith(WithoutSentinel(D.usages[i].target_for_guesswork), Components(q))

\* C16: usages(Q) returns every stored definition that has at least one usage whose
\* sentinel-stripped target ends with the component sequence Q, of whatever file and
\* whatever depth.
C16_UsagesReturnsEveryReference ==
    HasReturned("usages") =>
        {D \in StoredDefinitions(db) : References(D, tasks[Caller].call.q)}
            \subseteq AsSet(tasks[Caller].out)

\* usages has returned definitions of two files and of two depths
C16_Witness ==
    /\ HasReturned("usages")
    /\ \A cpath \in CPaths : \E D \in AsSet(tasks[Caller].out) : OfFile(D, cpath)
    /\ \E D \in AsSet(tasks[Caller].out), E \in AsSet(tasks[Caller].out) :
          Len(D.official_path) < Len(E.official_path)
    /\ \A D \in AsSet(tasks[Caller].out) : References(D, tasks[Caller].call.q)

\* The text brings the file a definition that is not stored yet and references q
BringsNewReference(store, cpath, text, q) ==
    \E D \in parse_anything_and_add_file_path(cpath, text) :
        /\ DKey(path(D)) \notin DOMAIN store
        /\ References(D, q)

LeftSide(k) == Split(k, SEP)[1]

\* The keys that start with the prefix while their left side is not the prefix
Colliding(store, prefix) ==
    {k \in DOMAIN store : StartsWith(k, prefix) /\ LeftSide(k) # prefix}

\* The store without the keys that collide with the prefix
WithoutColliding(store, prefix) ==
    [k \in DOMAIN store \ Colliding(store, prefix) |-> store[k]]

\* C18: definitions(Q) and usages(Q) only use index keys whose left side equals c/Q
\* (resp. u/Q): every definition returned has such a key, and the keys that merely
\* start with c/Q (resp. u/Q) contribute nothing: without them the result is the same.
C18_ExactLeftSide ==
    LET q == tasks[Caller].call.q
        out == tasks[Caller].out
    IN  /\ HasReturned("definitions") =>
              /\ \A D \in AsSet(out) : IndexKey("c", q, path(D)) \in DOMAIN db
              /\ out = definitions(WithoutColliding(db, CPrefix(q)), q)
        /\ HasReturned("usages") =>
              /\ \A D \in AsSet(out) : IndexKey("u", q, path(D)) \in DOMAIN db
              /\ out = usages(WithoutColliding(db, UPrefix(q)), q)

\* definitions("a") has returned while the store holds a key c/ab::... ^ ..., whose short
\* path starts with "a" and goes on with another letter
C18_Witness ==
    /\ HasReturned("definitions")
    /\ \E k \in Colliding(db, CPrefix(tasks[Caller].call.q)) :
          /\ Len(tasks[Caller].call.q) = 1
          /\ k[Len(CPrefix(tasks[Caller].call.q)) + 1] = "b"
          /\ DKey(OfficialPathOf(k)) \in DOMAIN db

\* C19: doc_symbols(f) returns exactly the stored definitions of file f, those whose
\* official path begins with the component sequence that is the canonical prefix of f,
\* and no definition of any other file.
C19_SymbolsOfTheFileOnly ==
    HasReturned("doc_symbols") =>
        AsSet(tasks[Caller].out) =
            {D \in StoredDefinitions(db) : OfFile(D, tasks[Caller].call.cpath)}

\* The step is the return of a call of op
StepOf(op) == tasks'[Caller].pc = "done" /\ tasks'[Caller].call.op = op

\* C20: doc_remove(f) always leaves f Absent, doc_add(f, t) with a non-empty parse
\* result always leaves f Present, and no other operation (a query, connect_usages,
\* dump_database, an operation on another file) changes whether f is Absent or Present.
C20_PerFileStateMachine ==
    [][\A f \in CPaths :
          LET call == tasks'[Caller].call
          IN  /\ (StepOf("doc_remove") /\ call.cpath = f) => ~Present(db', f)
              /\ (/\ StepOf("doc_add") /\ call.cpath = f
                  /\ parse_anything_and_add_file_path(f, call.text) # {}) => Present(db', f)
              /\ (/\ ~((StepOf("doc_add") \/ StepOf("doc_remove")) /\ call.cpath = f)
                  /\ ~StepOf("alt_index_init")) =>
                    (Present(db', f) <=> Present(db, f))]_vars

-----------------------------------------------------------------------------
(* Properties of failures, of absent data and of the frame of the calls *)

\* The caller's last call was op and has returned after it logged an error
HasReturnedAfterError(op) == tasks[Caller].pc = "error" /\ tasks[Caller].call.op = op

C23_EmptyParseWritesNothing ==
    \A cpath \in CPaths, text \in Texts :
        parse_anything_and_add_file_path(cpath, text) = {} => AddStore(db, cpath, text) = db

\* Both files are indexed, one of them twice, and some text has an empty parse result
C23_Witness ==
    /\ \A cpath \in CPaths : Present(db, cpath)
    /\ StaleUsageKey(db)
    /\ \E cpath \in CPaths, text \in Texts :
          /\ parse_anything_and_add_file_path(cpath, text) = {}
          /\ AddStore(db, cpath, text) = db

\* C26: definitions(Q), usages(Q) and doc_symbols(f) return an empty list when no
\* stored key matches: no key with the left side c/Q, resp. u/Q, resp. no d/ key under
\* the prefix of f.
C26_EmptyWhenNothingMatches ==
    LET q == tasks[Caller].call.q
    IN  /\ (HasReturned("definitions") /\ \A k \in KeysOfFamily(db, "c") : LeftSide(k) # CPrefix(q))
              => tasks[Caller].out = <<>>
        /\ (HasReturned("usages") /\ \A k \in KeysOfFamily(db, "u") : LeftSide(k) # UPrefix(q))
              => tasks[Caller].out = <<>>
        /\ (/\ HasReturned("doc_symbols")
            /\ \A k \in KeysOfFamily(db, "d") : ~StartsWith(k, DPrefix(tasks[Caller].call.cpath)))
              => tasks[Caller].out = <<>>

\* definitions has returned the empty list for a path that is a suffix of no stored
\* path, on a store that holds keys under the scanned prefix
C26_Witness ==
    /\ HasReturned("definitions")
    /\ tasks[Caller].out = <<>>
    /\ \A k \in KeysOfFamily(db, "c") : LeftSide(k) # CPrefix(tasks[Caller].call.q)
    /\ \E k \in KeysOfFamily(db, "c") : StartsWith(k, CPrefix(tasks[Caller].call.q))
    /\ tasks[Caller].call.q # <<>>

\* C27: in every reachable store there is at most one definition record per official
\* path (the record at d/P is the record of path P and of no other), and after a
\* doc_add whose parse result holds a definition of path P the record at d/P is that
\* definition.
C27_LastWriterWins ==
    /\ \A k \in KeysOfFamily(db, "d") :
          /\ Deserialize(db[k]).ok
          /\ DKey(path(StoredDefinition(db, k))) = k
    /\ HasReturned("doc_add") =>
          \A D \in parse_anything_and_add_file_path(tasks[Caller].call.cpath,
                                                    tasks[Caller].call.text) :
              /\ DKey(path(D)) \in DOMAIN db
              /\ db[DKey(path(D))] = Serialize(D)

\* doc_add has returned on a file indexed before with another text: a usage key of
\* the earlier record is still stored, and the record is the one of the last text
C27_Witness ==
    /\ HasReturned("doc_add")
    /\ \E D \in parse_anything_and_add_file_path(tasks[Caller].call.cpath,
                                                  tasks[Caller].call.text) :
          /\ D.usages = <<>>
          /\ \E k \in KeysOfFamily(db, "u") : OfficialPathOf(k) = path(D)
          /\ db[DKey(path(D))] = Serialize(D)

\* C28: connect_usages is a no-op: every key and every value of the store is the same
\* before and after the call.
C28_ConnectUsagesNoOp ==
    [][StepOf("connect_usages") => db' = db]_vars

\* connect_usages has returned on a store that holds usage keys
C28_Witness ==
    /\ HasReturned("connect_usages")
    /\ KeysOfFamily(db, "u") # {}
    /\ StaleUsageKey(db)

\* C29: immediately after init the store holds no key, whatever it held before: every
\* file is Absent and every query returns the empty list.
C29_InitClears ==
    HasReturned("alt_index_init") =>
        /\ DOMAIN db = {}
        /\ \A cpath \in CPaths : ~Present(db, cpath) /\ doc_symbols(db, cpath) = <<>>
        /\ \A q \in Queries : definitions(db, q) = <<>> /\ usages(db, q) = <<>>

\* The step is an init on a store that holds keys of both files
C29_Witness ==
    /\ HasReturned("alt_index_init")
    /\ db = EmptyStore
    /\ mutex = "free"

\* The u/ keys that one usage of the definition D must contribute
UsageKeysOf(D, i) ==
    SuffixKeys("u", WithoutSentinel(D.usages[i].target_for_guesswork), D.official_path)

\* The u/ keys that the usages of the definitions of a parse result must contribute
ExpectedUsageKeys(defs) ==
    UNION {UNION {UsageKeysOf(D, i) : i \in DOMAIN D.usages} : D \in defs}

\* C30: in doc_add a usage whose target is empty or only "?" contributes no u/ key;
\* any other usage has its leading "?" stripped and contributes exactly one u/ key
\* per non-empty suffix of the rest, and doc_add writes no other u/ key.
C30_UsageKeysOfTargets ==
    [][StepOf("doc_add") =>
          LET defs == parse_anything_and_add_file_path(tasks'[Caller].call.cpath,
                                                       tasks'[Caller].call.text)
              written == KeysOfFamily(db', "u") \ KeysOfFamily(db, "u")
          IN  /\ written \subseteq ExpectedUsageKeys(defs)
              /\ \A k \in written :
                    LeftSide(k) # <<"u", "/">> /\ ~Contains(LeftSide(k), Sentinel)
              /\ \A D \in defs : \A i \in DOMAIN D.usages :
                    LET target == D.usages[i].target_for_guesswork
                        keys == {k \in KeysOfFamily(db', "u") : k \in UsageKeysOf(D, i)}
                    IN  /\ target \in {<<>>, <<Sentinel>>} => UsageKeysOf(D, i) = {}
                        /\ keys = UsageKeysOf(D, i)
                        /\ Cardinality(keys) = Len(WithoutSentinel(target))]_vars

\* doc_add has returned for a text with the usages ?::x and ?, and one with y::x, x
\* and an empty target: the u/ keys of x and of y::x are stored
C30_Witness ==
    /\ HasReturned("doc_add")
    /\ LET defs == parse_anything_and_add_file_path(tasks[Caller].call.cpath,
                                                     tasks[Caller].call.text)
       IN  /\ \E D \in defs : \E i \in DOMAIN D.usages :
                 D.usages[i].target_for_guesswork = <<Sentinel>>
           /\ \E D \in defs : \E i \in DOMAIN D.usages :
                 D.usages[i].target_for_guesswork = <<>>
           /\ \E D \in defs : \E i \in DOMAIN D.usages :
                 /\ Len(D.usages[i].target_for_guesswork) = 2
                 /\ D.usages[i].target_for_guesswork[1] = Sentinel
                 /\ UsageKeysOf(D, i) # {}
                 /\ UsageKeysOf(D, i) \subseteq DOMAIN db

-----------------------------------------------------------------------------
(* Properties of the queries on a damaged store *)

\* An index key of the form "<family>/<short> ^ <path>": the separator occurs once
WellFormedKey(k) == Len(Split(k, SEP)) = 2

\* The store without the c/ and u/ keys that are malformed
WithoutMalformed(store) ==
    [k \in {j \in DOMAIN store : j[1] = "d" \/ WellFormedKey(j)} |-> store[k]]

\* The malformed keys that a scan of the prefix meets
MalformedUnder(store, prefix) ==
    {k \in DOMAIN store : k[1] # "d" /\ ~WellFormedKey(k) /\ StartsWith(k, prefix)}

\* C24: when the store holds, under the scanned prefix, an index key with no " ^ "
\* separator or with more than one, usages and definitions skip that key: they return,
\* and what they return is exactly the result on the store without the malformed keys.
C24_MalformedKeysSkipped ==
    /\ HasReturned("usages") =>
          tasks[Caller].out = usages(WithoutMalformed(db), tasks[Caller].call.q)
    /\ HasReturned("definitions") =>
          tasks[Caller].out = definitions(WithoutMalformed(db), tasks[Caller].call.q)

\* usages(x) has returned a non-empty result from a store that holds, under u/x, a
\* key with two separators and a key with none
C24_Witness ==
    /\ HasReturned("usages")
    /\ tasks[Caller].out # <<>>
    /\ \E k \in MalformedUnder(db, UPrefix(tasks[Caller].call.q)) : Len(Split(k, SEP)) > 2
    /\ \E k \in MalformedUnder(db, UPrefix(tasks[Caller].call.q)) : ~Contains(k, SEP)

\* The d/ keys whose value decodes
Decodable(store) == {k \in KeysOfFamily(store, "d") : Deserialize(store[k]).ok}

\* The official paths that the well-formed keys of the left side point at
PathsAt(store, leftSide) ==
    {OfficialPathOf(k) : k \in {j \in DOMAIN store :
        j[1] # "d" /\ WellFormedKey(j) /\ LeftSide(j) = leftSide}}

\* Of a set of joined paths, those with the fewest "::"
FewestColons(S) ==
    {P \in S : \A R \in S : CountMatches(P, COLONS) <= CountMatches(R, COLONS)}

\* The result is the decodable records at the d/ keys, each once
ExactlyTheDecodable(out, store, keys) ==
    /\ AsSet(out) = {StoredDefinition(store, k) : k \in keys \cap Decodable(store)}
    /\ Len(out) = Cardinality(keys \cap Decodable(store))

\* C25: a d/ value that does not deserialize is skipped and the scan goes on:
\* usages(Q) returns the decodable records among those its u/ keys point at,
\* definitions(Q) the decodable records among those of fewest components its c/ keys
\* point at, doc_symbols(f) the decodable records under the scanned prefix; each of
\* them returns, and none returns a record that does not decode.
C25_UndecodableSkipped ==
    /\ HasReturned("usages") =>
          ExactlyTheDecodable(tasks[Caller].out, db,
              {DKey(P) : P \in PathsAt(db, UPrefix(tasks[Caller].call.q))})
    /\ HasReturned("definitions") =>
          ExactlyTheDecodable(tasks[Caller].out, db,
              {DKey(P) : P \in FewestColons(PathsAt(db, CPrefix(tasks[Caller].call.q)))})
    /\ HasReturned("doc_symbols") =>
          ExactlyTheDecodable(tasks[Caller].out, db,
              {k \in KeysOfFamily(db, "d") : StartsWith(k, DPrefix(tasks[Caller].call.cpath))})

\* usages(x) has returned a record although the value of a record that its keys point
\* at, and that sorts before the one returned, does not decode
C25_Witness ==
    /\ HasReturned("usages")
    /\ tasks[Caller].out # <<>>
    /\ \E P \in PathsAt(db, UPrefix(tasks[Caller].call.q)) :
          /\ DKey(P) \in KeysOfFamily(db, "d") \ Decodable(db)
          /\ \E D \in AsSet(tasks[Caller].out) : KeyLess(P, path(D))

-----------------------------------------------------------------------------
(* Properties of the query that bounds its wait for the mutex *)

\* The caller waits for the mutex, which the other task holds
WaitsOnHolder == tasks[Caller].pc = "lock" /\ mutex = Holder

-----------------------------------------------------------------------------
(* Properties that relate doc_add and doc_remove, and frame properties *)

\* The c/ and u/ keys doc_add writes for a definition
KeysInserted(D) ==
    {k \in DOMAIN AddDefinition(EmptyBatch, D).writes : k[1] \in {"c", "u"}}

\* The c/ and u/ keys doc_remove enqueues for removal from a stored value
KeysEnqueued(key, value) ==
    {k \in RemoveRecord(EmptyBatch, key, value).removes : k[1] \in {"c", "u"}}

\* C31: for every stored record of a definition D, the c/ and u/ keys that doc_remove
\* enqueues for removal from the record are the c/ and u/ keys that doc_add inserted
\* when it wrote the record: the suffix keys of the path and, for every usage, the
\* suffix keys of its target without the leading "?".
C31_RemoveMirrorsAdd ==
    \A k \in KeysOfFamily(db, "d") :
        LET D == StoredDefinition(db, k)
        IN  /\ KeysEnqueued(k, db[k]) = KeysInserted(D)
            /\ KeysInserted(D) = InducedKeys(D) \ {k}

\* Records are stored whose usages have a leading "?", a lone "?", an empty target
\* and two targets that share a suffix
C31_Witness ==
    /\ \E k \in KeysOfFamily(db, "d") : StoredDefinition(db, k).usages = UsageLists[2]
    /\ \E k \in KeysOfFamily(db, "d") : StoredDefinition(db, k).usages = UsageLists[3]
    /\ \E k \in KeysOfFamily(db, "d") : KeysEnqueued(k, db[k]) # {}

\* C33: every definition that usages(Q) returns references Q now: its stored record
\* has a usage whose target without the leading "?" ends with the components of Q.
C33_UsagesOnlyCurrentReferences ==
    (HasReturned("usages") /\ tasks[Caller].call.q # <<>>) =>
        \A D \in AsSet(tasks[Caller].out) : References(D, tasks[Caller].call.q)

\* The step is the return of a read operation
ReadStep ==
    \/ StepOf("definitions")
    \/ StepOf("usages")
    \/ StepOf("doc_symbols")
    \/ StepOf("dump_database")

\* C34: definitions, usages, doc_symbols and dump_database never modify the store: on
\* every store and for every argument, the store after the call is the store before.
C34_ReadsLeaveStore ==
    [][ReadStep => db' = db]_vars

\* doc_symbols has returned the records of a file from a store that also holds a
\* usage key that outlived its definition
C34_Witness ==
    /\ HasReturned("doc_symbols")
    /\ tasks[Caller].out # <<>>
    /\ StaleUsageKey(db)

\* C35: doc_add is idempotent: once doc_add(f, t) has returned, a second doc_add(f, t)
\* gives the store that the first one left.
C35_AddIdempotent ==
    HasReturned("doc_add") =>
        AddStore(db, tasks[Caller].call.cpath, tasks[Caller].call.text) = db

\* doc_add has returned for a text with definitions, on a file that was indexed before
\* with another text whose usage keys are still stored
C35_Witness ==
    /\ HasReturned("doc_add")
    /\ doc_add_batch(tasks[Caller].call.cpath, tasks[Caller].call.text) # EmptyBatch
    /\ \E k \in KeysOfFamily(db, "u") \cap FileKeys(db, tasks[Caller].call.cpath) :
          k \notin DOMAIN doc_add_batch(tasks[Caller].call.cpath, tasks[Caller].call.text).writes

\* C36: doc_remove(f) leaves the store unchanged when f is Absent (no d/ key lies
\* under the prefix of f), and doc_remove(f) run twice gives the store that one run
\* gives.
C36_RemoveNoOpAndIdempotent ==
    \A cpath \in CPaths :
        /\ ~Present(db, cpath) => RemoveStore(db, cpath) = db
        /\ RemoveStore(RemoveStore(db, cpath), cpath) = RemoveStore(db, cpath)

\* C37: the result of definitions(Q) and of usages(Q) holds each stored definition at
\* most once, also when several usages of the definition have targets that end with Q.
C37_NoDuplicates ==
    (HasReturned("definitions") \/ HasReturned("usages")) =>
        \A i, j \in DOMAIN tasks[Caller].out :
            i # j => tasks[Caller].out[i] # tasks[Caller].out[j]

\* The usages of D whose target without the leading "?" ends with the components of q
ReferringUsages(D, q) ==
    {i \in DOMAIN D.usages :
        EndsWith(WithoutSentinel(D.usages[i].target_for_guesswork), Components(q))}

\* usages has returned two definitions, one of which references the queried path by
\* two of its usages
C37_Witness ==
    /\ HasReturned("usages")
    /\ Len(tasks[Caller].out) >= 2
    /\ \E D \in AsSet(tasks[Caller].out) :
          Cardinality(ReferringUsages(D, tasks[Caller].call.q)) >= 2

\* The d/-c/ consistency of a store: d/P is stored exactly when the well-formed c/
\* keys that point at P are the keys of the suffixes of P
SuffixIndexConsistent(store) ==
    \A P \in OfficialPaths :
        LET pointing == {k \in KeysOfFamily(store, "c") :
                            WellFormedKey(k) /\ OfficialPathOf(k) = Join(P)}
        IN  (DKey(Join(P)) \in DOMAIN store) <=> (pointing = SuffixKeys("c", P, P))

\* C32: in doc_remove(f), a d/ record under the prefix of f whose value does not
\* deserialize is skipped, its keys are left as they were; every record of f that
\* decodes is removed with its c/ and u/ keys; and the d/-c/ consistency that held
\* before the call holds after it.
C32_UndecodableRecordSkipped ==
    [][StepOf("doc_remove") =>
          LET scanned == {k \in KeysOfFamily(db, "d") :
                            StartsWith(k, DPrefix(tasks'[Caller].call.cpath))}
          IN  /\ \A k \in scanned \ Decodable(db) : k \in DOMAIN db' /\ db'[k] = db[k]
              /\ \A k \in scanned \cap Decodable(db) :
                    InducedKeys(StoredDefinition(db, k)) \cap DOMAIN db' = {}
              /\ SuffixIndexConsistent(db) => SuffixIndexConsistent(db')]_vars

-----------------------------------------------------------------------------
(* Progress of concurrent calls *)

\* The task has a call under way
UnderWay(t) == tasks[t].pc \notin {"idle", "done"}

\* The task reads or writes the store: it is in its scan, its fetches or its batch
InStore(t) == tasks[t].pc \in {"scan", "fetch", "apply", "symbols"}

\* C38: with concurrent doc_add, doc_remove, definitions, usages and doc_symbols calls
\* (doc_symbols taking the AltState mutex and then the AltIndex mutex, the others the
\* AltIndex mutex alone), under fair scheduling every call that is under way completes,
\* so there is no deadlock; and no call holds the index mutex while it scans the store
\* or applies its batch.
C38_NoDeadlock ==
    /\ \A t \in Tasks : UnderWay(t) ~> (tasks[t].pc = "done")
    /\ [](\A t \in Tasks : InStore(t) => mutex # t)

\* A doc_symbols call holds the AltState mutex and waits for the AltIndex mutex, which
\* the other task holds
C38_Witness ==
    \E t \in Tasks :
        /\ tasks[t].pc = "index_lock"
        /\ state_mutex = t
        /\ mutex \in Tasks \ {t}

====
